---- MODULE Spec2Model ----
(***************************************************************************)
(* A model of the slogr logging handler (package slogr): the handler that  *)
(* turns slog records into Cloud Logging entries and writes them as JSON.  *)
(*                                                                         *)
(* Strings that the code takes apart (project identifier, log name, trace  *)
(* and span identifiers) are sequences of one-character strings; strings   *)
(* that are only copied (message, HTTP method, ...) are TLA+ strings.      *)
(***************************************************************************)
EXTENDS Integers, Sequences, FiniteSets, TLC

VARIABLES
    handlers,   \* the Handler values that exist: handlers[1] is the one NewHandler built
    arrays,     \* the backing arrays of the handlers' baggage slices ([]slog.Attr)
    objs,       \* the *ltype.HttpRequest objects that Request / Response allocated
    made,       \* the attributes Request / Response returned, made[i] holding objs[i]
    sink,       \* what the handlers' io.Writer has received, one element per Write
    calls,      \* the calls of Handle that run concurrently, and where each is
    levelVar,   \* the text a LevelVar holds
    result      \* the most recent operation, its arguments and what it returned

vars == <<handlers, arrays, objs, made, sink, calls, levelVar, result>>

(***************************************************************************)
(* Bounds of the model.                                                    *)
(***************************************************************************)
MaxHandlers == 6
MaxObjs == 2
MaxSink == 2
MaxAttrs == 2
MaxDepth == 2
MaxCalls == 2
MaxLevel == 12
MaxDerived == 3
MaxName == 2

(***************************************************************************)
(* Strings as sequences of characters.                                     *)
(***************************************************************************)
Nil == [nil |-> TRUE]

Slash == <<"/">>

ProjectsStr == <<"p", "r", "o", "j", "e", "c", "t", "s">>
LogsStr == <<"l", "o", "g", "s">>
TracesStr == <<"t", "r", "a", "c", "e", "s">>

\* The reserved attribute keys.
NameKey == "name"
ErrorKey == "error"
LabelKey == "labels"
RequestKey == "request"
ResponseKey == "response"
OperationKey == "operation"

\* url.PathEscape on one character: every character outside the unreserved
\* set and outside $&+=:@ is written as a percent sign and two hex digits.
EscapeChar(c) ==
    CASE c = "/" -> <<"%", "2", "F">>
      [] c = "%" -> <<"%", "2", "5">>
      [] c = " " -> <<"%", "2", "0">>
      [] OTHER -> <<c>>

RECURSIVE PathEscape(_)
PathEscape(s) ==
    IF s = <<>> THEN <<>> ELSE EscapeChar(Head(s)) \o PathEscape(Tail(s))

\* strings.Split(s, "/"): the components of s between the slashes.
RECURSIVE SplitSlash(_, _)
SplitSlash(s, cur) ==
    IF s = <<>> THEN <<cur>>
    ELSE IF Head(s) = "/" THEN <<cur>> \o SplitSlash(Tail(s), <<>>)
    ELSE SplitSlash(Tail(s), Append(cur, Head(s)))

\* filepath.Clean on a relative path, component by component: empty and "."
\* components go, ".." removes the component before it (and stays when there
\* is none to remove).
RECURSIVE CleanComponents(_, _)
CleanComponents(cs, out) ==
    IF cs = <<>> THEN out
    ELSE LET c == Head(cs) IN
         IF c = <<>> \/ c = <<".">> THEN CleanComponents(Tail(cs), out)
         ELSE IF c = <<".", ".">>
         THEN IF out # <<>> /\ out[Len(out)] # <<".", ".">>
              THEN CleanComponents(Tail(cs), SubSeq(out, 1, Len(out) - 1))
              ELSE CleanComponents(Tail(cs), Append(out, c))
         ELSE CleanComponents(Tail(cs), Append(out, c))

RECURSIVE JoinSlash(_)
JoinSlash(cs) ==
    IF cs = <<>> THEN <<>>
    ELSE IF Len(cs) = 1 THEN cs[1]
    ELSE cs[1] \o Slash \o JoinSlash(Tail(cs))

Clean(p) ==
    LET cs == CleanComponents(SplitSlash(p, <<>>), <<>>) IN
    IF cs = <<>> THEN <<".">> ELSE JoinSlash(cs)

\* filepath.Join: the non-empty elements joined by the separator, cleaned.
FilepathJoin(elems) ==
    LET nonEmpty == SelectSeq(elems, LAMBDA e : e # <<>>) IN
    IF nonEmpty = <<>> THEN <<>> ELSE Clean(JoinSlash(nonEmpty))

\* Handler.path: filepath.Join("projects", h.project, key...).
path(h, key) ==
    FilepathJoin(<<ProjectsStr, h.project>> \o key)

(***************************************************************************)
(* slog values.  A value is a record tagged by its kind:                   *)
(*   [kind |-> "String", str], [kind |-> "Int64", str],                    *)
(*   [kind |-> "Duration", str], [kind |-> "Time", str]   (str: the text   *)
(*   Value.String() gives), [kind |-> "Any", type, ...] (type "HttpRequest"*)
(*   with ref, the object's place in objs; type "Operation" with op, the   *)
(*   operation; type "Opaque" for any other object),                       *)
(*   [kind |-> "Group", attrs], [kind |-> "LogValuer", inner].             *)
(* An attribute is [Key, Value].                                           *)
(***************************************************************************)
StringValue(s) == [kind |-> "String", str |-> s]
Int64Value(s) == [kind |-> "Int64", str |-> s]
DurationValue(s) == [kind |-> "Duration", str |-> s]
TimeValue(s) == [kind |-> "Time", str |-> s]
OpaqueValue == [kind |-> "Any", type |-> "Opaque"]
GroupValue(as) == [kind |-> "Group", attrs |-> as]
HttpRequestValue(ref) == [kind |-> "Any", type |-> "HttpRequest", ref |-> ref]
OperationValue(op) == [kind |-> "Any", type |-> "Operation", op |-> op]
Attr(k, v) == [Key |-> k, Value |-> v]

\* Value.String(): the string of a string value, the canonical text of a
\* scalar, a formatted rendering of anything else.
ValueString(v) ==
    IF v.kind \in {"String", "Int64", "Duration", "Time"} THEN v.str
    ELSE <<"{", "}">>

\* Value.Group(): the attributes of a group; it panics on any other kind.
GroupPanics(v) == v.kind # "Group"

\* attr.Value.Any().(*ltype.HttpRequest): the pointer, or nil when the value
\* holds anything else.  0 stands for the nil pointer.
AsHttpRequest(v) ==
    IF v.kind = "Any" /\ v.type = "HttpRequest" THEN v.ref ELSE 0

\* attr.Value.Any().(*loggingpb.LogEntryOperation), Nil for the nil pointer.
AsOperation(v) ==
    IF v.kind = "Any" /\ v.type = "Operation" THEN v.op ELSE Nil

\* The place of the first attribute with key k, 0 when there is none: what
\* an r.Attrs loop that returns false on its first match stops at.
RECURSIVE FirstFrom(_, _, _)
FirstFrom(as, k, i) ==
    IF i > Len(as) THEN 0
    ELSE IF as[i].Key = k THEN i
    ELSE FirstFrom(as, k, i + 1)

First(as, k) == FirstFrom(as, k, 1)

\* A map (Go map, JSON object) is a function on its keys.
EmptyMap == <<>>
Put(m, k, v) == [x \in (DOMAIN m) \cup {k} |-> IF x = k THEN v ELSE m[x]]

(***************************************************************************)
(* The handler's baggage is a Go slice: a backing array (arr, a place in   *)
(* arrays, 0 for the nil slice), a length and a capacity.                   *)
(***************************************************************************)
NilSlice == [arr |-> 0, len |-> 0, cap |-> 0]

\* The elements of a slice.
Elems(as, s) ==
    IF s.len = 0 THEN <<>> ELSE SubSeq(as[s.arr], 1, s.len)

\* The attributes Handle adds to every record of handler h.
Baggage(hs, as, h) == Elems(as, hs[h].attr)

\* The allocator's size classes (bytes) up to 1024, and the size of one
\* slog.Attr: a string header and a Value (a word and an interface).
SizeClasses ==
    {8, 16, 24, 32, 48, 64, 80, 96, 112, 128, 144, 160, 176, 192, 208, 224,
     240, 256, 288, 320, 352, 384, 416, 448, 480, 512, 576, 640, 704, 768,
     896, 1024}

AttrBytes == 16 + 24

RoundUpSize(n) ==
    CHOOSE c \in SizeClasses : c >= n /\ \A d \in SizeClasses : d >= n => c <= d

\* The capacity append gives a slice of capacity old that has to hold need
\* elements: the capacity doubles (or is need, when that is more) and is
\* rounded up to what the allocated size class holds.
GrowCap(old, need) ==
    LET newcap == IF need > 2 * old THEN need ELSE 2 * old
    IN RoundUpSize(newcap * AttrBytes) \div AttrBytes

\* A zero attribute, what the unused cells of a backing array hold.
ZeroAttr == Attr("", [kind |-> "Any", type |-> "nil"])

\* append(s, xs...): when the capacity suffices the elements are written into
\* the backing array of s, after its length; otherwise a new array is
\* allocated and the elements of s copied into it.  Gives the slice returned
\* and the backing arrays afterwards.
GoAppend(as, s, xs) ==
    LET n == s.len + Len(xs) IN
    IF xs = <<>> THEN [slice |-> s, arrays |-> as]
    ELSE IF n <= s.cap
    THEN [slice |-> [s EXCEPT !.len = n],
          arrays |-> [as EXCEPT ![s.arr] =
                        [i \in 1..s.cap |->
                            IF i > s.len /\ i <= n THEN xs[i - s.len] ELSE @[i]]]]
    ELSE LET c == GrowCap(s.cap, n)
             fresh == [i \in 1..c |->
                          IF i <= s.len THEN as[s.arr][i]
                          ELSE IF i <= n THEN xs[i - s.len]
                          ELSE ZeroAttr]
         IN [slice |-> [arr |-> Len(as) + 1, len |-> n, cap |-> c],
             arrays |-> Append(as, fresh)]

\* clone without the source flag.
clone_DropsSource(h) ==
    [leveler |-> h.leveler, writer |-> h.writer, project |-> h.project,
     source |-> FALSE, indent |-> h.indent, attr |-> h.attr]

\* Handler.clone: a new Handler with every field of h, the baggage slice
\* header included (the backing array is not copied).
clone(h) ==
    [leveler |-> h.leveler, writer |-> h.writer, project |-> h.project,
     source |-> h.source, indent |-> h.indent, attr |-> h.attr]

\* record with the baggage before the record's own attributes.
record_BaggageFirst(hs, as, h, r) ==
    [r EXCEPT !.attrs = Baggage(hs, as, h) \o r.attrs]

\* Handler.record: a copy of the record with the handler's baggage after the
\* record's own attributes.
record(hs, as, h, r) ==
    [r EXCEPT !.attrs = r.attrs \o Baggage(hs, as, h)]

(***************************************************************************)
(* The parts of an entry, as Handle computes them from the record (with    *)
(* the baggage already added).                                             *)
(***************************************************************************)
LevelDebug == 0 - 4
LevelInfo == 0
LevelWarn == 4
LevelError == 8

\* A mapping by ranges of levels instead of the four exact levels.
severity_ByRange(r) ==
    CASE r.Level < LevelInfo -> "DEBUG"
      [] r.Level < LevelWarn -> "INFO"
      [] r.Level < LevelError -> "WARNING"
      [] OTHER -> "ERROR"

\* Handler.severity
severity(r) ==
    CASE r.Level = LevelDebug -> "DEBUG"
      [] r.Level = LevelInfo -> "INFO"
      [] r.Level = LevelWarn -> "WARNING"
      [] r.Level = LevelError -> "ERROR"
      [] OTHER -> "DEFAULT"

\* name without the test of the project.
name_AnyProject(h, r) ==
    LET i == First(r.attrs, NameKey) IN
    IF i # 0
    THEN path(h, <<LogsStr, PathEscape(ValueString(r.attrs[i].Value))>>)
    ELSE <<>>

\* Handler.name: with a project set, the path of the first attribute with
\* key name, its text path-escaped; with no project, or no such attribute,
\* the empty string.
name(h, r) ==
    LET i == First(r.attrs, NameKey) IN
    IF h.project # <<>> /\ i # 0
    THEN path(h, <<LogsStr, PathEscape(ValueString(r.attrs[i].Value))>>)
    ELSE <<>>

\* Handler.flatten: the leaves under an attribute, each keyed by the keys on
\* the way to it joined with dots.
RECURSIVE flatten(_)
RECURSIVE flattenAll(_, _)
flatten(attr) ==
    IF attr.Value.kind = "Group"
    THEN flattenAll(attr.Key, attr.Value.attrs)
    ELSE <<attr>>

\* flattenAll with the key of the child alone, the path to it left out.
flattenAll_ChildKey(key, items) ==
    IF items = <<>> THEN <<>>
    ELSE flatten(Attr(Head(items).Key, Head(items).Value))
             \o flattenAll(key, Tail(items))

flattenAll(key, items) ==
    IF items = <<>> THEN <<>>
    ELSE flatten(Attr(key \o "." \o Head(items).Key, Head(items).Value))
             \o flattenAll(key, Tail(items))

RECURSIVE PutLabels(_, _)
PutLabels(kv, ls) ==
    IF ls = <<>> THEN kv
    ELSE PutLabels(Put(kv, Head(ls).Key, ValueString(Head(ls).Value)), Tail(ls))

RECURSIVE LabelItems(_, _)
LabelItems(kv, items) ==
    IF items = <<>> THEN kv
    ELSE LabelItems(PutLabels(kv, flatten(Head(items))), Tail(items))

\* Handler.label: the flattened children of the first attribute with key
\* labels.  Value.Group panics when that attribute is no group.
label(r) ==
    LET i == First(r.attrs, LabelKey) IN
    IF i = 0 THEN [panic |-> FALSE, kv |-> EmptyMap]
    ELSE IF GroupPanics(r.attrs[i].Value) THEN [panic |-> TRUE]
    ELSE [panic |-> FALSE, kv |-> LabelItems(EmptyMap, r.attrs[i].Value.attrs)]

\* Handler.location
Frame(pc) ==
    IF pc = 0 THEN [File |-> "", Line |-> 0, Function |-> ""]
    ELSE [File |-> "main.go", Line |-> 67, Function |-> "main.main"]

location(h, r) ==
    IF h.source THEN Frame(r.PC) ELSE Nil

\* A new(ltype.HttpRequest).
ZeroHttpRequest ==
    [Protocol |-> "", RequestMethod |-> "", RequestUrl |-> "", RequestSize |-> 0,
     UserAgent |-> "", Status |-> 0, ResponseSize |-> 0]

\* Handler.request.  The request is the object of the first attribute with
\* key request itself (a nil pointer when the attribute holds something
\* else), or a new object when there is no such attribute; the status and
\* the response size of the first attribute with key response are stored
\* into it.  Storing through, or reading through, a nil pointer panics.
\* Gives the objects afterwards and the request Handle goes on with: ptr is
\* its place in objs, 0 for nil, -1 for the new object, whose value is val.
request_KeepsSize(os, r) ==
    LET i == First(r.attrs, RequestKey)
        j == First(r.attrs, ResponseKey)
        req == IF i = 0 THEN 0 - 1 ELSE AsHttpRequest(r.attrs[i].Value)
        resp == IF j = 0 THEN 0 ELSE AsHttpRequest(r.attrs[j].Value)
    IN
    IF j # 0 /\ (req = 0 \/ resp = 0) THEN [panic |-> TRUE, objs |-> os]
    ELSE IF j = 0
    THEN [panic |-> FALSE, objs |-> os,
          ptr |-> IF i = 0 THEN 0 ELSE req, val |-> ZeroHttpRequest]
    ELSE IF req = 0 - 1
    THEN [panic |-> FALSE, objs |-> os, ptr |-> req,
          val |-> [ZeroHttpRequest EXCEPT !.Status = os[resp].Status]]
    ELSE [panic |-> FALSE,
          objs |-> [os EXCEPT ![req] = [@ EXCEPT !.Status = os[resp].Status]],
          ptr |-> req, val |-> ZeroHttpRequest]

request(os, r) ==
    LET i == First(r.attrs, RequestKey)
        j == First(r.attrs, ResponseKey)
        req == IF i = 0 THEN 0 - 1 ELSE AsHttpRequest(r.attrs[i].Value)
        resp == IF j = 0 THEN 0 ELSE AsHttpRequest(r.attrs[j].Value)
    IN
    IF j # 0 /\ (req = 0 \/ resp = 0) THEN [panic |-> TRUE, objs |-> os]
    ELSE IF j = 0
    THEN [panic |-> FALSE, objs |-> os,
          ptr |-> IF i = 0 THEN 0 ELSE req, val |-> ZeroHttpRequest]
    ELSE IF req = 0 - 1
    THEN [panic |-> FALSE, objs |-> os, ptr |-> req,
          val |-> [ZeroHttpRequest EXCEPT !.Status = os[resp].Status,
                                          !.ResponseSize = os[resp].ResponseSize]]
    ELSE [panic |-> FALSE,
          objs |-> [os EXCEPT ![req] = [@ EXCEPT !.Status = os[resp].Status,
                                                 !.ResponseSize = os[resp].ResponseSize]],
          ptr |-> req, val |-> ZeroHttpRequest]

\* What a request pointer points to, Nil for the nil pointer.
Deref(os, q) ==
    IF q.ptr = 0 THEN Nil ELSE IF q.ptr = 0 - 1 THEN q.val ELSE os[q.ptr]

\* Handler.operation
operation(r) ==
    LET i == First(r.attrs, OperationKey) IN
    IF i = 0 THEN Nil ELSE AsOperation(r.attrs[i].Value)

\* Handler.trace: the span context, when a project is set and the context
\* carries a valid span (trace and span identifiers both non-zero).
ZeroID == <<"0">>

IsValid(sc) == sc.TraceID # ZeroID /\ sc.SpanID # ZeroID

NoSpan == [TraceID |-> ZeroID, SpanID |-> ZeroID, Sampled |-> FALSE]

\* trace without the test of the span's validity.
trace_AnySpan(h, ctx) ==
    IF h.project # <<>> THEN ctx ELSE Nil

trace(h, ctx) ==
    IF h.project # <<>> /\ IsValid(ctx) THEN ctx ELSE Nil

(***************************************************************************)
(* The payload.                                                            *)
(***************************************************************************)
\* Handler.value: the Go value of a slog value.  t is its Go type.
RECURSIVE value(_)
RECURSIVE valueGroup(_, _)
value(v) ==
    CASE v.kind = "String" -> [t |-> "string", str |-> v.str]
      [] v.kind = "Int64" -> [t |-> "int64", str |-> v.str]
      [] v.kind = "Duration" -> [t |-> "time.Duration", str |-> v.str]
      [] v.kind = "Time" -> [t |-> "time.Time", str |-> v.str]
      [] v.kind = "Any" -> [t |-> "object", type |-> v.type]
      [] v.kind = "LogValuer" -> value(v.inner)
      [] v.kind = "Group" -> [t |-> "map", m |-> valueGroup(EmptyMap, v.attrs)]
      [] OTHER -> [t |-> "nil"]

valueGroup(kv, as) ==
    IF as = <<>> THEN kv
    ELSE valueGroup(Put(kv, Head(as).Key, value(Head(as).Value)), Tail(as))

\* structpb.NewValue takes nil, booleans, numbers, strings and maps and
\* slices of these; for any other type it returns an error.
RECURSIVE Representable(_)
Representable(g) ==
    CASE g.t \in {"string", "int64", "nil"} -> TRUE
      [] g.t = "map" -> \A k \in DOMAIN g.m : Representable(g.m[k])
      [] OTHER -> FALSE

MessageKey == "logging.googleapis.com/message"

\* The keys Handler.payload leaves out of the payload.
PayloadSkips == {NameKey, LabelKey, RequestKey, ResponseKey, OperationKey}

RECURSIVE props(_, _)
props(kv, as) ==
    IF as = <<>> THEN kv
    ELSE IF Head(as).Key \in PayloadSkips THEN props(kv, Tail(as))
    ELSE props(Put(kv, Head(as).Key, value(Head(as).Value)), Tail(as))

\* Handler.payload: the message as text when no attribute is left for the
\* payload, otherwise a struct of the attributes left and the message.
\* It panics when structpb.NewStruct returns an error.
payload(r) ==
    LET kv == props(EmptyMap, r.attrs) IN
    IF DOMAIN kv = {} THEN [panic |-> FALSE, kind |-> "text", text |-> r.Message]
    ELSE LET all == Put(kv, MessageKey, [t |-> "string", str |-> r.Message]) IN
         IF \A k \in DOMAIN all : Representable(all[k])
         THEN [panic |-> FALSE, kind |-> "json", fields |-> all]
         ELSE [panic |-> TRUE]

(***************************************************************************)
(* Entry.MarshalJSON.  Go values are tagged with their type.               *)
(***************************************************************************)
GoString(x) == [go |-> "string", v |-> x]
GoChars(x) == [go |-> "chars", v |-> x]
GoBool(x) == [go |-> "bool", v |-> x]
GoTime(x) == [go |-> "time", v |-> x]
GoMap(x) == [go |-> "map", v |-> x]
GoMessage(x) == [go |-> "message", v |-> x]
GoStruct(x) == [go |-> "struct", v |-> x]

\* IsZero that takes no string read from the trace for zero.
IsZero_KeepsEmptyText(x) ==
    CASE x.go = "string" -> x.v = ""
      [] x.go = "chars" -> FALSE
      [] x.go = "bool" -> x.v = FALSE
      [] x.go = "time" -> x.v = 0
      [] x.go = "map" -> FALSE
      [] x.go = "message" -> x.v = Nil
      [] x.go = "struct" -> FALSE

\* reflect.Value.IsZero: the empty string, false, the zero time, a nil map, a
\* nil pointer.  A map that make built is not nil, however empty.
IsZero(x) ==
    CASE x.go = "string" -> x.v = ""
      [] x.go = "chars" -> x.v = <<>>
      [] x.go = "bool" -> x.v = FALSE
      [] x.go = "time" -> x.v = 0
      [] x.go = "map" -> FALSE
      [] x.go = "message" -> x.v = Nil
      [] x.go = "struct" -> FALSE

\* A string that is not valid UTF-8.
BadUTF8 == "\\xff"

\* The fields of the messages by type.
StringFields ==
    {"Protocol", "RequestMethod", "RequestUrl", "UserAgent", "Id", "Producer",
     "File", "Function"}
BoolFields == {"First", "Last"}

\* protojson.Marshal returns an error for a message with a string field that
\* is not valid UTF-8.
MarshalFails(msg) ==
    \E f \in (DOMAIN msg) \cap StringFields : msg[f] = BadUTF8

\* The JSON object of a message: protojson leaves out the fields that hold
\* their zero value.
IsDefault(f, x) ==
    IF f \in StringFields THEN x = ""
    ELSE IF f \in BoolFields THEN x = FALSE
    ELSE x = 0

ProtoJSON(msg) ==
    LET keep == {f \in DOMAIN msg : ~IsDefault(f, msg[f])} IN
    [f \in keep |-> msg[f]]

\* The closure set of MarshalJSON: nothing for a zero value; a message is
\* marshalled and, when that fails, the error is returned and the key not
\* set.  Gives the error and the attributes afterwards.
set(attributes, k, x) ==
    IF IsZero(x) THEN [err |-> FALSE, m |-> attributes]
    ELSE IF x.go = "message"
    THEN IF MarshalFails(x.v) THEN [err |-> TRUE, m |-> attributes]
         ELSE [err |-> FALSE, m |-> Put(attributes, k, ProtoJSON(x.v))]
    ELSE [err |-> FALSE, m |-> Put(attributes, k, x.v)]

\* Entry.GetPayload
GetPayload(x) ==
    IF x.Payload.kind = "text" THEN GoString(x.Payload.text)
    ELSE GoStruct(x.Payload.fields)

\* Entry.MarshalJSON: one set per field, the error of each set dropped, then
\* json.Marshal of the attributes.
MarshalJSON(x) ==
    LET a1 == set(EmptyMap, "severity", GoString(x.Severity)).m
        a2 == set(a1, "httpRequest", GoMessage(x.HttpRequest)).m
        a3 == set(a2, "timestamp", GoTime(x.Timestamp)).m
        a4 == set(a3, "message", GetPayload(x)).m
        a5 == set(a4, "logging.googleapis.com/insertId", GoString(x.InsertId)).m
        a6 == set(a5, "logging.googleapis.com/labels", GoMap(x.Labels)).m
        a7 == set(a6, "logging.googleapis.com/operation", GoMessage(x.Operation)).m
        a8 == set(a7, "logging.googleapis.com/sourceLocation", GoMessage(x.SourceLocation)).m
        a9 == set(a8, "logging.googleapis.com/spanId", GoChars(x.SpanId)).m
        a10 == set(a9, "logging.googleapis.com/trace", GoChars(x.Trace)).m
        a11 == set(a10, "logging.googleapis.com/trace_sampled", GoBool(x.TraceSampled)).m
    IN [err |-> FALSE, json |-> a11]

(***************************************************************************)
(* Handle.                                                                 *)
(***************************************************************************)
\* Handler.Handle on handler h (a place in hs) with record r0 under context
\* ctx; wok tells whether the writer accepts the write.  The parts are
\* computed in the order of the code, so that a panic in one leaves the
\* effects of those before it.  Gives the outcome ("ok", "error" for an
\* error returned, "panic"), the objects afterwards, the entry and what was
\* written (wrote tells whether anything was).
Handle(hs, as, os, h, r0, ctx, wok) ==
    LET r == record(hs, as, h, r0)
        hd == hs[h]
        labels == label(r)
        q == request(os, r)
        pl == payload(r)
        span == trace(hd, ctx)
        entry ==
            [LogName |-> name(hd, r),
             Severity |-> severity(r),
             Timestamp |-> r.Time,
             Labels |-> labels.kv,
             HttpRequest |-> Deref(q.objs, q),
             Operation |-> operation(r),
             SourceLocation |-> location(hd, r),
             Payload |-> pl,
             InsertId |-> "",
             Trace |-> IF span = Nil THEN <<>>
                       ELSE path(hd, <<TracesStr, span.TraceID>>),
             TraceSampled |-> IF span = Nil THEN FALSE ELSE span.Sampled,
             SpanId |-> IF span = Nil THEN <<>> ELSE span.SpanID]
        enc == MarshalJSON(entry)
    IN
    IF labels.panic THEN
        [outcome |-> "panic", objs |-> os, entry |-> Nil, wrote |-> FALSE, json |-> Nil]
    ELSE IF q.panic THEN
        [outcome |-> "panic", objs |-> os, entry |-> Nil, wrote |-> FALSE, json |-> Nil]
    ELSE IF pl.panic THEN
        [outcome |-> "panic", objs |-> q.objs, entry |-> Nil, wrote |-> FALSE, json |-> Nil]
    ELSE IF enc.err \/ ~wok THEN
        [outcome |-> "error", objs |-> q.objs, entry |-> entry, wrote |-> FALSE, json |-> Nil]
    ELSE
        [outcome |-> "ok", objs |-> q.objs, entry |-> entry, wrote |-> TRUE,
         json |-> IF hd.indent THEN [indent |-> TRUE, object |-> enc.json]
                  ELSE [indent |-> FALSE, object |-> enc.json]]

(***************************************************************************)
(* The attribute constructors.                                             *)
(***************************************************************************)
\* Name: the value is path-escaped by the constructor.
Name(v) == Attr(NameKey, StringValue(PathEscape(v)))

\* Label
Label(as) == Attr(LabelKey, GroupValue(as))

\* The ltype.HttpRequest that Request builds from an http.Request.
RequestObject(r) ==
    [Protocol |-> r.Proto, RequestMethod |-> r.Method, RequestUrl |-> r.URL,
     RequestSize |-> r.ContentLength, UserAgent |-> r.UserAgent,
     Status |-> 0, ResponseSize |-> 0]

\* The ltype.HttpRequest that Response builds from an http.Response.
ResponseObject(r) ==
    [ZeroHttpRequest EXCEPT !.ResponseSize = r.ContentLength, !.Status = r.StatusCode]

\* OperationStart, OperationContinue, OperationEnd
OperationStart(id, producer) ==
    Attr(OperationKey, OperationValue(
        [Id |-> id, Producer |-> producer, First |-> TRUE, Last |-> FALSE]))
OperationContinue(id, producer) ==
    Attr(OperationKey, OperationValue(
        [Id |-> id, Producer |-> producer, First |-> FALSE, Last |-> FALSE]))
OperationEnd(id, producer) ==
    Attr(OperationKey, OperationValue(
        [Id |-> id, Producer |-> producer, First |-> FALSE, Last |-> TRUE]))

\* Error
Error(text) == Attr(ErrorKey, StringValue(text))

(***************************************************************************)
(* The state machine.                                                      *)
(***************************************************************************)
\* NewHandler: the handler of the options, with no baggage.
NewHandler(w, opts) ==
    [leveler |-> opts.Level, writer |-> w, project |-> opts.ProjectID,
     source |-> opts.AddSource, indent |-> opts.AddIndent, attr |-> NilSlice]

\* The writer the handlers are made with where no other is named.
Stdout == "stdout"

\* A threshold test that leaves out the minimum level itself.
Enabled_Strict(h, level) == level > h.leveler

\* Handler.Enabled: the level is at least the level of the leveler.
Enabled(h, level) == level >= h.leveler

InitWith(options) ==
    /\ \E opts \in options : handlers = <<NewHandler(Stdout, opts)>>
    /\ arrays = <<>>
    /\ objs = <<>>
    /\ made = <<>>
    /\ sink = <<>>
    /\ calls = <<>>
    /\ levelVar = <<>>
    /\ result = [op |-> "NewHandler"]

\* Request(r): a new object, and the attribute with key request holding it.
Request(r) ==
    /\ Len(objs) < MaxObjs
    /\ objs' = Append(objs, RequestObject(r))
    /\ made' = Append(made, Attr(RequestKey, HttpRequestValue(Len(objs) + 1)))
    /\ result' = [op |-> "Request", ref |-> Len(objs) + 1]
    /\ UNCHANGED <<handlers, arrays, sink, calls, levelVar>>

\* Response(r): a new object, and the attribute with key response holding it.
Response(r) ==
    /\ Len(objs) < MaxObjs
    /\ objs' = Append(objs, ResponseObject(r))
    /\ made' = Append(made, Attr(ResponseKey, HttpRequestValue(Len(objs) + 1)))
    /\ result' = [op |-> "Response", ref |-> Len(objs) + 1]
    /\ UNCHANGED <<handlers, arrays, sink, calls, levelVar>>

\* Handler.WithAttrs on handler h: the clone, with attrs appended to the
\* slice it shares with h.  Gives the new handler and the arrays afterwards.
WithAttrs(hs, as, h, attrs) ==
    LET c == clone(hs[h])
        ap == GoAppend(as, c.attr, attrs)
    IN [handler |-> [c EXCEPT !.attr = ap.slice], arrays |-> ap.arrays]

CallWithAttrs(h, attrs) ==
    /\ Len(handlers) < MaxHandlers
    /\ LET res == WithAttrs(handlers, arrays, h, attrs) IN
        /\ handlers' = Append(handlers, res.handler)
        /\ arrays' = res.arrays
    /\ result' = [op |-> "WithAttrs", h |-> h, attrs |-> attrs, new |-> Len(handlers) + 1]
    /\ UNCHANGED <<objs, made, sink, calls, levelVar>>

\* WithGroup giving a handler that starts without baggage.
WithGroup_DropsBaggage(hs, h, group) == [clone(hs[h]) EXCEPT !.attr = NilSlice]

\* Handler.WithGroup: a clone of the handler; the group name is not used.
WithGroup(hs, h, group) == clone(hs[h])

CallWithGroup(h, group) ==
    /\ Len(handlers) < MaxHandlers
    /\ handlers' = Append(handlers, WithGroup(handlers, h, group))
    /\ result' = [op |-> "WithGroup", h |-> h, group |-> group, new |-> Len(handlers) + 1]
    /\ UNCHANGED <<arrays, objs, made, sink, calls, levelVar>>

\* A call of Handle on handler h; wok tells whether the writer accepts the
\* write.
CallHandle(h, r, ctx, wok) ==
    /\ Len(sink) < MaxSink
    /\ \E res \in {Handle(handlers, arrays, objs, h, r, ctx, wok)} :
        /\ objs' = res.objs
        /\ sink' = IF res.wrote THEN Append(sink, res.json) ELSE sink
        /\ result' = [op |-> "Handle", h |-> h, r |-> r, ctx |-> ctx,
                      outcome |-> res.outcome, wrote |-> res.wrote,
                      entry |-> res.entry]
    /\ UNCHANGED <<handlers, arrays, made, calls, levelVar>>

\* The sequences of at most n elements of the set S.
SeqsUpTo(S, n) == UNION {[1..k -> S] : k \in 0..n}

\* Handler.Enabled on handler h.
CallEnabled(h, level) ==
    /\ h \in DOMAIN handlers
    /\ result' = [op |-> "Enabled", h |-> h, level |-> level,
                  ret |-> Enabled(handlers[h], level)]
    /\ UNCHANGED <<handlers, arrays, objs, made, sink, calls, levelVar>>

\* A record of the front end: a time, a message, a level, the program
\* counter of the call and the attributes of the call.
Record(msg, level, as) ==
    [Time |-> 1, Message |-> msg, Level |-> level, PC |-> 1, attrs |-> as]

\* The records with one of the attribute lists of S.
Records(msg, level, S) == {Record(msg, level, as) : as \in S}

\* The JSON object of the last write to the sink.
Written == sink[Len(sink)].object

(***************************************************************************)
(* Spec: requests and responses.  The application builds request and       *)
(* response attributes and logs records that carry them, and attributes    *)
(* with the keys request and response that hold something else.  A record  *)
(* carries at most one attribute of each of the two keys, in either order. *)
(***************************************************************************)
DefaultOptions ==
    [ProjectID |-> <<"p">>, Level |-> LevelInfo, AddSource |-> FALSE, AddIndent |-> FALSE]

HttpRequests ==
    {[Proto |-> "HTTP/1.1", Method |-> "GET", URL |-> "http://host/x",
      ContentLength |-> 0, UserAgent |-> "curl"],
     [Proto |-> "HTTP/1.1", Method |-> "GET", URL |-> "http://host/x",
      ContentLength |-> 0, UserAgent |-> BadUTF8]}

HttpResponses ==
    {[StatusCode |-> 200, ContentLength |-> 42],
     [StatusCode |-> 404, ContentLength |-> 7]}

BadRequest == Attr(RequestKey, StringValue(<<"x">>))
BadResponse == Attr(ResponseKey, StringValue(<<"x">>))

HttpAttrs == {made[i] : i \in 1..Len(made)} \cup {BadRequest, BadResponse}

HttpRecords ==
    {<<>>} \cup {<<a>> : a \in HttpAttrs}
           \cup {<<p[1], p[2]>> : p \in {q \in HttpAttrs \X HttpAttrs : q[1].Key # q[2].Key}}

Init == InitWith({DefaultOptions})

Next ==
    \/ \E r \in HttpRequests : Request(r)
    \/ \E r \in HttpResponses : Response(r)
    \/ \E r \in Records("hi", LevelInfo, HttpRecords) :
          CallHandle(1, r, NoSpan, TRUE)

Spec == Init /\ [][Next]_vars

(***************************************************************************)
(* Properties of the request and response attributes, under Spec.          *)
(***************************************************************************)
\* The attributes Handle works on in the call that result describes: those
\* of the record, then the baggage of the handler.
Handled == record(handlers, arrays, result.h, result.r).attrs

\* The attribute holds an object that Request or Response built.
WellFormed(a) == AsHttpRequest(a.Value) # 0

\* The places of the attributes with key k among as.
Carrying(as, k) == {i \in 1..Len(as) : as[i].Key = k}

\* C2: Handle leaves the object held by a request attribute of its record
\* as it was before the call, field for field, and so a Handle on a record
\* with a request attribute and no response attribute emits status 0 and
\* response size 0.
C2_HandleKeepsRequestObject ==
    /\ [][result'.op = "Handle" =>
            \A i \in Carrying(result'.r.attrs, RequestKey) :
                WellFormed(result'.r.attrs[i]) =>
                    LET o == AsHttpRequest(result'.r.attrs[i].Value) IN
                    objs'[o] = objs[o]]_vars
    /\ [](result.op = "Handle" /\ result.outcome # "panic"
            /\ First(Handled, RequestKey) # 0
            /\ WellFormed(Handled[First(Handled, RequestKey)])
            /\ First(Handled, ResponseKey) = 0
          => /\ result.entry.HttpRequest.Status = 0
             /\ result.entry.HttpRequest.ResponseSize = 0)

\* C3: Handle on a record with a request or response attribute that holds
\* no HttpRequest does not panic and emits what it emits for the record
\* without that attribute.
Malformed(a) == a.Key \in {RequestKey, ResponseKey} /\ ~WellFormed(a)

WithoutMalformed(r) ==
    [r EXCEPT !.attrs = SelectSeq(r.attrs, LAMBDA a : ~Malformed(a))]

C3_MalformedRequestResponseIgnored ==
    (result.op = "Handle" /\ \E i \in 1..Len(Handled) : Malformed(Handled[i]))
    => /\ result.outcome # "panic"
       /\ result.entry.HttpRequest =
            Handle(handlers, arrays, objs, result.h, WithoutMalformed(result.r),
                   result.ctx, TRUE).entry.HttpRequest

\* C6: when the encoding of the httpRequest, operation or sourceLocation of
\* the entry fails, Handle returns an error and writes nothing.
FieldFails(entry) ==
    \E f \in {"HttpRequest", "Operation", "SourceLocation"} :
        entry[f] # Nil /\ MarshalFails(entry[f])

C6_FieldErrorAbortsHandle ==
    (result.op = "Handle" /\ result.outcome # "panic" /\ FieldFails(result.entry))
    => (result.outcome = "error" /\ ~result.wrote)

\* C10: a record with a request and a response attribute yields the fields
\* of the request object with the status and response size of the response
\* object; a record with neither yields no HttpRequest.
C10_RequestResponseMerge ==
    [][(result'.op = "Handle" /\ result'.outcome # "panic") =>
         LET as == record(handlers, arrays, result'.h, result'.r).attrs
             i == First(as, RequestKey)
             j == First(as, ResponseKey)
         IN /\ (i # 0 /\ j # 0 /\ WellFormed(as[i]) /\ WellFormed(as[j])) =>
                 LET req == objs[AsHttpRequest(as[i].Value)]
                     resp == objs[AsHttpRequest(as[j].Value)]
                 IN result'.entry.HttpRequest =
                        [req EXCEPT !.Status = resp.Status,
                                    !.ResponseSize = resp.ResponseSize]
            /\ (i = 0 /\ j = 0) => result'.entry.HttpRequest = Nil]_vars

\* A Handle of a GET request of /x over HTTP/1.1 with a response of status
\* 200 and size 42 has emitted them merged.
C10_Witness ==
    /\ result.op = "Handle" /\ result.outcome = "ok"
    /\ First(Handled, RequestKey) # 0 /\ First(Handled, ResponseKey) # 0
    /\ result.entry.HttpRequest =
         [Protocol |-> "HTTP/1.1", RequestMethod |-> "GET",
          RequestUrl |-> "http://host/x", RequestSize |-> 0, UserAgent |-> "curl",
          Status |-> 200, ResponseSize |-> 42]

(***************************************************************************)
(* SpecPath: log names and traces.  The handler is built with or without   *)
(* a project; the application logs records with and without a name         *)
(* attribute, under contexts with no span, an invalid span and valid       *)
(* spans.                                                                  *)
(***************************************************************************)
PathOptions ==
    {[ProjectID |-> <<>>, Level |-> LevelInfo, AddSource |-> FALSE, AddIndent |-> FALSE],
     [ProjectID |-> <<"p">>, Level |-> LevelInfo, AddSource |-> TRUE, AddIndent |-> FALSE],
     [ProjectID |-> <<"p", "j">>, Level |-> LevelInfo, AddSource |-> FALSE, AddIndent |-> TRUE]}

NameChars == {"m", "l", "/"}
Names == SeqsUpTo(NameChars, MaxName) \ {<<>>}

Contexts ==
    {NoSpan,
     [TraceID |-> ZeroID, SpanID |-> <<"s">>, Sampled |-> TRUE],
     [TraceID |-> <<"t">>, SpanID |-> <<"s">>, Sampled |-> TRUE],
     [TraceID |-> <<"t">>, SpanID |-> <<"s">>, Sampled |-> FALSE]}

PathRecords == {<<>>} \cup {<<Name(n)>> : n \in Names}

InitPath == InitWith(PathOptions)

NextPath ==
    \E r \in Records("hi", LevelInfo, PathRecords), ctx \in Contexts :
        CallHandle(1, r, ctx, TRUE)

SpecPath == InitPath /\ [][NextPath]_vars

\* C7: with a project P set, the log name of a record with the attribute
\* Name(n) is projects/P/logs/ followed by n path-escaped once.
C7_NameEscapedOnce ==
    (result.op = "Handle" /\ result.outcome # "panic"
        /\ handlers[result.h].project # <<>>)
    => \A n \in Names :
         (Handled # <<>> /\ Handled[1] = Name(n)) =>
            result.entry.LogName =
                ProjectsStr \o Slash \o handlers[result.h].project \o Slash
                    \o LogsStr \o Slash \o PathEscape(n)

\* C8: a handler with no project emits no log name, no trace, no span id
\* and a false sampled flag.
C8_NoProjectNoPaths ==
    (result.op = "Handle" /\ result.outcome # "panic"
        /\ handlers[result.h].project = <<>>)
    => /\ result.entry.LogName = <<>>
       /\ result.entry.Trace = <<>>
       /\ result.entry.SpanId = <<>>
       /\ result.entry.TraceSampled = FALSE

\* A handler with no project has handled a record with a name attribute
\* under a context with a valid, sampled span.
C8_Witness ==
    /\ result.op = "Handle" /\ result.outcome = "ok"
    /\ handlers[result.h].project = <<>>
    /\ First(Handled, NameKey) # 0
    /\ IsValid(result.ctx) /\ result.ctx.Sampled

\* C9: with a project P set, the trace is projects/P/traces/ followed by
\* the trace id, and the span id and sampled flag are the span's, when the
\* context has a valid span; otherwise all three are zero.
C9_TraceIffValidSpan ==
    (result.op = "Handle" /\ result.outcome # "panic"
        /\ handlers[result.h].project # <<>>)
    => IF IsValid(result.ctx)
       THEN /\ result.entry.Trace =
                 ProjectsStr \o Slash \o handlers[result.h].project \o Slash
                     \o TracesStr \o Slash \o result.ctx.TraceID
            /\ result.entry.SpanId = result.ctx.SpanID
            /\ result.entry.TraceSampled = result.ctx.Sampled
       ELSE /\ result.entry.Trace = <<>>
            /\ result.entry.SpanId = <<>>
            /\ result.entry.TraceSampled = FALSE

\* A handler with a project has handled a record under a valid span, and
\* the entry has the trace of that span.
C9_Witness ==
    /\ result.op = "Handle" /\ result.outcome = "ok"
    /\ handlers[result.h].project = <<"p", "j">>
    /\ IsValid(result.ctx) /\ ~result.ctx.Sampled
    /\ result.entry.Trace =
         <<"p", "r", "o", "j", "e", "c", "t", "s", "/", "p", "j", "/",
           "t", "r", "a", "c", "e", "s", "/", "t">>

\* C15: the JSON object of an entry has no httpRequest key when the entry
\* has no HttpRequest, no operation key when it has no operation, and no
\* span id, trace or sampled key when these are empty, empty and false.
C15_ZeroValuesOmitted ==
    (result.op = "Handle" /\ result.wrote)
    => LET e == result.entry
           keys == DOMAIN Written
       IN /\ e.HttpRequest = Nil => "httpRequest" \notin keys
          /\ e.Operation = Nil => "logging.googleapis.com/operation" \notin keys
          /\ e.SpanId = <<>> => "logging.googleapis.com/spanId" \notin keys
          /\ e.Trace = <<>> => "logging.googleapis.com/trace" \notin keys
          /\ ~e.TraceSampled => "logging.googleapis.com/trace_sampled" \notin keys

\* An entry with no HttpRequest, no operation and no trace has been written.
C15_Witness ==
    /\ result.op = "Handle" /\ result.wrote
    /\ result.entry.HttpRequest = Nil /\ result.entry.Operation = Nil
    /\ result.entry.SpanId = <<>> /\ result.entry.Trace = <<>>
    /\ ~result.entry.TraceSampled
    /\ "severity" \in DOMAIN Written

(***************************************************************************)
(* SpecAttrs: labels and payload.  The application logs records of         *)
(* attributes of its own, of every kind of value, and label attributes,    *)
(* well formed and not; the writer accepts a write or fails it.            *)
(***************************************************************************)
Plain == Attr("k", StringValue(<<"v">>))
Elapsed == Attr("elapsed", DurationValue(<<"1", "s">>))
At == Attr("at", TimeValue(<<"1", "2", "h">>))
Opaque == Attr("o", OpaqueValue)
GoodLabels == Label(<<Attr("c", StringValue(<<"v">>))>>)
BadLabels == Attr(LabelKey, StringValue(<<"v">>))

OwnAttrs == {Plain, Elapsed, At, Opaque, GoodLabels, BadLabels}

InitAttrs == InitWith({DefaultOptions})

NextAttrs ==
    \E r \in Records("hi", LevelInfo, SeqsUpTo(OwnAttrs, MaxAttrs)), wok \in BOOLEAN :
        CallHandle(1, r, NoSpan, wok)

SpecAttrs == InitAttrs /\ [][NextAttrs]_vars

\* C4: Handle on a record whose labels attribute holds no group does not
\* panic and emits no labels.
C4_MalformedLabelsIgnored ==
    (result.op = "Handle"
        /\ First(Handled, LabelKey) # 0
        /\ Handled[First(Handled, LabelKey)].Value.kind # "Group")
    => (result.outcome # "panic" /\ result.entry.Labels = EmptyMap)

\* C5: Handle on a record with an attribute of its own that holds a
\* duration, a time or an opaque object returns an error, does not panic
\* and writes nothing.
Unrepresentable(a) ==
    /\ a.Key \notin {NameKey, LabelKey, RequestKey, ResponseKey, OperationKey, ErrorKey}
    /\ a.Value.kind \in {"Duration", "Time", "Any"}

C5_PayloadFailureIsError ==
    (result.op = "Handle" /\ \E i \in 1..Len(Handled) : Unrepresentable(Handled[i]))
    => (result.outcome = "error" /\ ~result.wrote)

(***************************************************************************)
(* SpecPayload: reserved keys and the payload.  The application logs       *)
(* records of attributes built by the constructors, one attribute of its   *)
(* own, and a request attribute that holds a string.                       *)
(***************************************************************************)
Failure == Error(<<"e">>)
Named == Name(<<"m">>)
Started == OperationStart("id", "producer")

NoLabels == Label(<<>>)

PayloadAttrs == {Plain, Failure, Named, GoodLabels, NoLabels, Started, BadRequest}

InitPayload == InitWith({DefaultOptions})

NextPayload ==
    \E r \in Records("hi", LevelInfo, SeqsUpTo(PayloadAttrs, MaxAttrs)) :
        CallHandle(1, r, NoSpan, TRUE)

SpecPayload == InitPayload /\ [][NextPayload]_vars

\* The reserved keys.
Reserved == {NameKey, LabelKey, RequestKey, ResponseKey, OperationKey, ErrorKey}

\* The attributes among as with a key that is not reserved.
NonReserved(as) == SelectSeq(as, LAMBDA a : a.Key \notin Reserved)

\* C11: an entry has a text payload or a JSON payload.  With no attribute
\* outside the reserved keys it is the text payload of the message;
\* otherwise it is the JSON payload with one field per such attribute,
\* holding its coerced value, and the message field.
C11_PayloadExclusiveAndFallback ==
    (result.op = "Handle" /\ result.outcome # "panic")
    => LET own == NonReserved(Handled)
           p == result.entry.Payload
       IN /\ p.kind \in {"text", "json"}
          /\ IF own = <<>>
             THEN p.kind = "text" /\ p.text = result.r.Message
             ELSE /\ p.kind = "json"
                  /\ DOMAIN p.fields =
                        {own[i].Key : i \in 1..Len(own)} \cup {MessageKey}
                  /\ \A i \in 1..Len(own) :
                        p.fields[own[i].Key] = value(own[i].Value)
                  /\ p.fields[MessageKey] = [t |-> "string", str |-> result.r.Message]

\* C12: no attribute with a reserved key is a field of the JSON payload,
\* and attributes with reserved keys alone leave the payload the text
\* payload; every attribute with another key is a field of the payload.
C12_ReservedKeysStayOut ==
    (result.op = "Handle" /\ result.outcome # "panic")
    => LET p == result.entry.Payload
           fields == IF p.kind = "json" THEN DOMAIN p.fields ELSE {}
       IN /\ \A i \in 1..Len(Handled) :
                Handled[i].Key \in fields <=> Handled[i].Key \notin Reserved
          /\ (\A i \in 1..Len(Handled) : Handled[i].Key \in Reserved)
                => p.kind = "text"

\* C14: the JSON object of an entry with no labels (no label attribute in
\* the record, or one without leaves) has no labels key.
C14_EmptyLabelsOmitted ==
    (result.op = "Handle" /\ result.wrote /\ result.entry.Labels = EmptyMap)
    => "logging.googleapis.com/labels" \notin DOMAIN Written

(***************************************************************************)
(* SpecLabels: label flattening.  Handler.label is applied to records with *)
(* a label attribute over attribute trees of bounded depth: a leaf holds a *)
(* string or an integer, a group holds no child, one tree or two leaves    *)
(* with different keys.                                                    *)
(***************************************************************************)
LabelKeys == {"a", "b", "c"}

LabelLeaves ==
    {Attr(k, v) : k \in LabelKeys, v \in {StringValue(<<"v">>), Int64Value(<<"7">>)}}

LeafPairs ==
    {<<p[1], p[2]>> : p \in {q \in LabelLeaves \X LabelLeaves : q[1].Key # q[2].Key}}

RECURSIVE LabelTrees(_)
LabelTrees(d) ==
    IF d = 0 THEN LabelLeaves
    ELSE LET kids == {<<>>} \cup {<<t>> : t \in LabelTrees(d - 1)} \cup LeafPairs
         IN LabelLeaves \cup {Attr(k, GroupValue(cs)) : k \in LabelKeys, cs \in kids}

LabelRecords ==
    {<<>>} \cup {<<Label(<<>>)>>}
           \cup {<<Label(<<t>>)>> : t \in LabelTrees(MaxDepth)}
           \cup {<<Label(cs)>> : cs \in LeafPairs}

\* An application of Handler.label to a record.
CallLabel(r) ==
    /\ result' = [op |-> "label", r |-> r, labels |-> label(r)]
    /\ UNCHANGED <<handlers, arrays, objs, made, sink, calls, levelVar>>

InitLabels == InitWith({DefaultOptions})

NextLabels ==
    \E r \in Records("hi", LevelInfo, LabelRecords) : CallLabel(r)

SpecLabels == InitLabels /\ [][NextLabels]_vars

\* The leaves under an attribute: the path of keys to each, joined with dots
\* after the prefix, and its string form.
RECURSIVE LeavesUnder(_, _)
LeavesUnder(prefix, a) ==
    IF a.Value.kind = "Group"
    THEN UNION {LeavesUnder(prefix \o a.Key \o ".", a.Value.attrs[i]) :
                    i \in 1..Len(a.Value.attrs)}
    ELSE {<<prefix \o a.Key, ValueString(a.Value)>>}

\* The label attribute of C13: Label(Group("a", Group("b", String("c", "v")))).
NestedLabel ==
    Label(<<Attr("a", GroupValue(<<Attr("b",
                GroupValue(<<Attr("c", StringValue(<<"v">>))>>))>>))>>)

\* C13: the labels of a record with a label attribute are one entry per
\* leaf under it, keyed by the dotted path from the child of labels to the
\* leaf and holding the string form of the leaf, and nothing else; the
\* nested label a, b, c gives the one entry a.b.c.
C13_LabelFlattening ==
    (result.op = "label" /\ result.r.attrs # <<>>)
    => LET top == result.r.attrs[1].Value.attrs
           leaves == UNION {LeavesUnder("", top[i]) : i \in 1..Len(top)}
           kv == result.labels.kv
       IN /\ ~result.labels.panic
          /\ DOMAIN kv = {e[1] : e \in leaves}
          /\ \A e \in leaves : kv[e[1]] = e[2]
          /\ result.r.attrs = <<NestedLabel>> => kv = [k \in {"a.b.c"} |-> <<"v">>]

\* Handler.label has flattened the nested label a, b, c.
C13_Witness ==
    /\ result.op = "label"
    /\ result.r.attrs = <<NestedLabel>>
    /\ DOMAIN result.labels.kv = {"a.b.c"}

(***************************************************************************)
(* SpecConc: concurrent calls of Handle on one handler whose writer is a   *)
(* buffer with a Write that is not safe for concurrent use (bytes.Buffer). *)
(* A call builds and encodes its entry, then calls Write once.  Write      *)
(* reads the length of the buffer, sets the length to make room after it,  *)
(* and copies the bytes there; the bytes of an object are two halves.      *)
(* Handle takes no lock, so the steps of two calls interleave freely.      *)
(* In this specification the sink holds one element per half.              *)
(***************************************************************************)
Blank == [blank |-> TRUE]

Half(t, k, json) == [blank |-> FALSE, call |-> t, half |-> k, json |-> json]

\* Handle up to the call of Write: the entry is built and encoded.
Encode(t, r) ==
    /\ calls[t].pc = "idle"
    /\ \E res \in {Handle(handlers, arrays, objs, 1, r, NoSpan, TRUE)} :
        /\ res.outcome = "ok"
        /\ objs' = res.objs
        /\ calls' = [calls EXCEPT ![t] = [pc |-> "encoded", json |-> res.json]]
    /\ result' = [op |-> "Encode", call |-> t]
    /\ UNCHANGED <<handlers, arrays, made, sink, levelVar>>

\* Write reads the length of the buffer.
WriteLoad(t) ==
    /\ calls[t].pc = "encoded"
    /\ calls' = [calls EXCEPT ![t] =
                    [pc |-> "loaded", json |-> calls[t].json, off |-> Len(sink)]]
    /\ result' = [op |-> "Write", call |-> t]
    /\ UNCHANGED <<handlers, arrays, objs, made, sink, levelVar>>

\* Write sets the length of the buffer to the length it read plus the length
\* of the object.
WriteGrow(t) ==
    /\ calls[t].pc = "loaded"
    /\ LET n == calls[t].off + 2 IN
       sink' = [i \in 1..n |-> IF i <= Len(sink) THEN sink[i] ELSE Blank]
    /\ calls' = [calls EXCEPT ![t] =
                    [pc |-> "grown", json |-> calls[t].json, off |-> calls[t].off,
                     done |-> 0]]
    /\ result' = [op |-> "Write", call |-> t]
    /\ UNCHANGED <<handlers, arrays, objs, made, levelVar>>

\* Write copies the next half of the object after the length it read; it
\* panics when the buffer is shorter than that by now.
WriteCopy(t) ==
    /\ calls[t].pc = "grown"
    /\ LET c == calls[t]
           at == c.off + c.done + 1
       IN IF c.off > Len(sink)
          THEN /\ calls' = [calls EXCEPT ![t] = [pc |-> "panic"]]
               /\ sink' = sink
          ELSE /\ sink' = [i \in 1..Len(sink) |->
                              IF i = at THEN Half(t, c.done + 1, c.json) ELSE sink[i]]
               /\ calls' = [calls EXCEPT ![t] =
                               IF c.done = 1 THEN [pc |-> "done"]
                               ELSE [c EXCEPT !.done = 1]]
    /\ result' = [op |-> "Write", call |-> t]
    /\ UNCHANGED <<handlers, arrays, objs, made, levelVar>>

InitConc ==
    /\ handlers = <<NewHandler(Stdout, DefaultOptions)>>
    /\ arrays = <<>>
    /\ objs = <<>>
    /\ made = <<>>
    /\ sink = <<>>
    /\ calls = [t \in 1..MaxCalls |-> [pc |-> "idle"]]
    /\ levelVar = <<>>
    /\ result = [op |-> "NewHandler"]

NextConc ==
    \E t \in 1..MaxCalls :
        \/ \E r \in Records("hi", LevelInfo, {<<>>, <<Plain>>}) : Encode(t, r)
        \/ WriteLoad(t)
        \/ WriteGrow(t)
        \/ WriteCopy(t)

SpecConc == InitConc /\ [][NextConc]_vars

\* The calls that are inside Write.
InWrite == {t \in DOMAIN calls : calls[t].pc \in {"loaded", "grown"}}

\* C16: no two calls are inside Write at the same time, and when every
\* call has returned the sink holds one complete object per call, the
\* halves of each next to each other.
C16_WritesExcluded ==
    /\ Cardinality(InWrite) <= 1
    /\ (\A t \in DOMAIN calls : calls[t].pc \in {"done", "panic"})
         => /\ Len(sink) = 2 * Cardinality(DOMAIN calls)
            /\ \A t \in DOMAIN calls :
                 \E i \in 1..Len(sink) - 1 :
                    /\ ~sink[i].blank /\ ~sink[i + 1].blank
                    /\ sink[i].call = t /\ sink[i].half = 1
                    /\ sink[i + 1].call = t /\ sink[i + 1].half = 2

(***************************************************************************)
(* SpecLevel: levels.  The handler is made with one of the four named      *)
(* levels as its minimum; Enabled is asked about, and Handle is given      *)
(* records of, every level from -MaxLevel to MaxLevel.                     *)
(***************************************************************************)
Levels == (0 - MaxLevel)..MaxLevel

NamedLevels == {LevelDebug, LevelInfo, LevelWarn, LevelError}

LevelOptions == {[DefaultOptions EXCEPT !.Level = m] : m \in NamedLevels}

LevelRecords == {Record("hi", l, <<>>) : l \in Levels}

InitLevel == InitWith(LevelOptions)

NextLevel ==
    \/ \E l \in Levels : CallEnabled(1, l)
    \/ \E r \in LevelRecords : CallHandle(1, r, NoSpan, TRUE)

SpecLevel == InitLevel /\ [][NextLevel]_vars

C18_SeverityTotal ==
    result.op = "Handle"
    => /\ result.outcome = "ok"
       /\ result.wrote
       /\ result.entry.Severity =
            (CASE result.r.Level = 0 - 4 -> "DEBUG"
               [] result.r.Level = 0 -> "INFO"
               [] result.r.Level = 4 -> "WARNING"
               [] result.r.Level = 8 -> "ERROR"
               [] OTHER -> "DEFAULT")
       /\ Written.severity = result.entry.Severity

\* A record of a level above error, and one below debug, was written as
\* DEFAULT.
C18_Witness ==
    /\ result.op = "Handle"
    /\ result.wrote
    /\ result.r.Level > LevelError
    /\ Written.severity = "DEFAULT"
    /\ Len(sink) > 1
    /\ sink[1].object.severity = "DEBUG"

(***************************************************************************)
(* SpecBaggage: derivation and Handle together.  Handlers are derived from *)
(* any handler, MaxDerived of them at most, with one or two attributes;    *)
(* the records handled have no attribute or one whose key is also a key of *)
(* the baggage, so that the order of the two shows in the payload.         *)
(***************************************************************************)
Own == Attr("x", StringValue(<<"0">>))

BaggageAttrs ==
    {<<Attr("x", StringValue(<<"1">>))>>,
     <<Attr("y", StringValue(<<"2">>)), Attr("x", StringValue(<<"3">>))>>}

BaggageRecords == {<<>>, <<Own>>}

InitBaggage == InitWith({DefaultOptions})

NextBaggage ==
    \/ \E h \in 1..Len(handlers), as \in BaggageAttrs :
        Len(handlers) <= MaxDerived /\ CallWithAttrs(h, as)
    \/ \E h \in 1..Len(handlers), r \in Records("hi", LevelInfo, BaggageRecords) :
        CallHandle(h, r, NoSpan, TRUE)

SpecBaggage == InitBaggage /\ [][NextBaggage]_vars

\* What Handle on handler h makes of record r.
Handles(hs, as, h, r) == Handle(hs, as, objs, h, r, NoSpan, TRUE)

\* What a handler with the configuration of h and no baggage makes of the
\* record r followed by the attributes bs.
HandlesAfter(h, r, bs) ==
    Handle(<<[handlers[h] EXCEPT !.attr = NilSlice]>>, arrays, objs, 1,
           [r EXCEPT !.attrs = r.attrs \o bs], NoSpan, TRUE)

\* C19: WithAttrs on a handler P gives a new handler whose baggage is the
\* baggage of P followed by the attributes given, and leaves the baggage of
\* P, and what Handle on P makes of a record, as they were; Handle on a
\* handler makes of a record what is made of the record's own attributes
\* followed by the handler's baggage, and the record is as it was given.
C19_WithAttrsAppends ==
    [][/\ result'.op = "WithAttrs" =>
            /\ result'.new \notin DOMAIN handlers
            /\ Baggage(handlers', arrays', result'.new) =
                   Baggage(handlers, arrays, result'.h) \o result'.attrs
            /\ Baggage(handlers', arrays', result'.h) =
                   Baggage(handlers, arrays, result'.h)
            /\ \A r \in Records("hi", LevelInfo, BaggageRecords) :
                   Handles(handlers', arrays', result'.h, r) =
                       Handles(handlers, arrays, result'.h, r)
       /\ result'.op = "Handle" =>
            /\ result'.entry =
                   HandlesAfter(result'.h, result'.r,
                                Baggage(handlers, arrays, result'.h)).entry
            /\ result'.r \in Records("hi", LevelInfo, BaggageRecords)]_vars

\* A handler derived into the spare capacity of its parent's backing array
\* has handled a record whose attribute has a key of the baggage, and the
\* payload written has the value of the baggage under that key.
C19_Witness ==
    /\ result.op = "Handle"
    /\ result.wrote
    /\ result.r.attrs = <<Own>>
    /\ \E p \in DOMAIN handlers :
          /\ p # result.h
          /\ handlers[p].attr.arr = handlers[result.h].attr.arr
          /\ handlers[p].attr.len < handlers[result.h].attr.len
    /\ Written.message["x"].str \in {<<"1">>, <<"3">>}

(***************************************************************************)
(* SpecConfig: derivation from handlers of every configuration.  The first *)
(* handler is made with one of two writers and any combination of project, *)
(* level and flags; handlers are derived from any handler by WithAttrs and *)
(* WithGroup, MaxDerived of them at most.                                  *)
(***************************************************************************)
Writers == {Stdout, "stderr"}

ConfigOptions ==
    [ProjectID : {<<>>, <<"p">>}, Level : {LevelInfo, LevelError},
     AddSource : BOOLEAN, AddIndent : BOOLEAN]

InitConfig ==
    /\ \E w \in Writers, opts \in ConfigOptions : handlers = <<NewHandler(w, opts)>>
    /\ arrays = <<>>
    /\ objs = <<>>
    /\ made = <<>>
    /\ sink = <<>>
    /\ calls = <<>>
    /\ levelVar = <<>>
    /\ result = [op |-> "NewHandler"]

NextConfig ==
    \E h \in 1..Len(handlers) :
        /\ Len(handlers) <= MaxDerived
        /\ \/ CallWithAttrs(h, <<Plain>>)
           \/ CallWithGroup(h, "g")

SpecConfig == InitConfig /\ [][NextConfig]_vars

\* The sink, project, minimum level, source flag and indent flag of a handler.
Config(h) == <<h.writer, h.project, h.leveler, h.source, h.indent>>

\* C20: the handler WithAttrs or WithGroup returns has the sink, project,
\* minimum level, source flag and indent flag of its parent, and so every
\* handler of a chain of derivations has those of the first.
C20_DerivationKeepsConfig ==
    [][result'.op \in {"WithAttrs", "WithGroup"} =>
         /\ Config(handlers'[result'.new]) = Config(handlers[result'.h])
         /\ \A h \in DOMAIN handlers' : Config(handlers'[h]) = Config(handlers'[1])]_vars

\* A handler was derived by WithGroup from a derived handler, in a chain
\* that has a WithAttrs, from a handler with a project, the error level, the
\* second writer and both flags set.
C20_Witness ==
    /\ result.op = "WithGroup"
    /\ result.h > 1
    /\ \E h \in DOMAIN handlers : handlers[h].attr.len > 0
    /\ Config(handlers[1]) = <<"stderr", <<"p">>, LevelError, TRUE, TRUE>>
    /\ Config(handlers[result.new]) = Config(handlers[1])

(***************************************************************************)
(* SpecGroup: groups.  Handlers are derived from any handler by WithAttrs  *)
(* and WithGroup, MaxDerived of them at most, and any of them handles a    *)
(* record.                                                                 *)
(***************************************************************************)
GroupNames == {"g", ""}

GroupAttrs == {<<Attr("y", StringValue(<<"2">>)), Attr("x", StringValue(<<"3">>))>>}

InitGroup == InitWith({DefaultOptions})

NextGroup ==
    \/ \E h \in 1..Len(handlers), as \in GroupAttrs :
        Len(handlers) <= MaxDerived /\ CallWithAttrs(h, as)
    \/ \E h \in 1..Len(handlers), g \in GroupNames :
        Len(handlers) <= MaxDerived /\ CallWithGroup(h, g)
    \/ \E h \in 1..Len(handlers), r \in Records("hi", LevelInfo, BaggageRecords) :
        CallHandle(h, r, NoSpan, TRUE)

SpecGroup == InitGroup /\ [][NextGroup]_vars

\* The keys of a list of attributes.
Keys(as) == {as[i].Key : i \in DOMAIN as}

\* C21: the handler WithGroup returns makes of every record the entry its
\* parent makes of it, whatever the name; and the keys of the payload Handle
\* emits on any handler are the keys of the record's attributes and of the
\* handler's baggage as they were given, with the key of the message.
C21_WithGroupNoOp ==
    [][/\ result'.op = "WithGroup" =>
            \A r \in Records("hi", LevelInfo, BaggageRecords) :
                Handles(handlers', arrays', result'.new, r).entry =
                    Handles(handlers, arrays, result'.h, r).entry
       /\ result'.op = "Handle" =>
            /\ result'.entry =
                   HandlesAfter(result'.h, result'.r,
                                Baggage(handlers, arrays, result'.h)).entry
            /\ result'.entry.Payload.kind = "json" =>
                   DOMAIN result'.entry.Payload.fields =
                       {MessageKey} \cup Keys(result'.r.attrs)
                           \cup Keys(Baggage(handlers, arrays, result'.h))]_vars

\* A handler derived by WithAttrs from a handler that WithGroup returned
\* for a handler with baggage has handled a record, and the payload written
\* has the keys x and y.
C21_Witness ==
    /\ result.op = "Handle"
    /\ result.wrote
    /\ \E p \in DOMAIN handlers, g \in DOMAIN handlers :
          /\ p < g /\ g < result.h
          /\ handlers[g] = handlers[p]
          /\ handlers[p].attr.len > 0
          /\ handlers[result.h].attr.len > handlers[g].attr.len
          /\ \A i \in 1..handlers[g].attr.len :
                Baggage(handlers, arrays, result.h)[i] = Baggage(handlers, arrays, g)[i]
    /\ {"x", "y"} \subseteq DOMAIN Written.message

(***************************************************************************)
(* SpecRace: concurrent calls of Handle that share a request object.  The  *)
(* second handler is the first with the attribute Request returned as its  *)
(* baggage; each call is on the second handler with a record holding the   *)
(* attribute Response returned for one of two responses.  Handler.request  *)
(* takes no lock: a call finds the request object, stores the status of    *)
(* its response into it, stores the response size into it, and Handle      *)
(* later reads the object to encode the entry; the steps of the calls      *)
(* interleave freely.  The write to the sink is one step here.             *)
(***************************************************************************)
SharedRequest == Attr(RequestKey, HttpRequestValue(1))

OwnResponses == {Attr(ResponseKey, HttpRequestValue(2)), Attr(ResponseKey, HttpRequestValue(3))}

InitRace ==
    /\ LET root == NewHandler(Stdout, DefaultOptions)
           res == WithAttrs(<<root>>, <<>>, 1, <<SharedRequest>>)
       IN /\ handlers = <<root, res.handler>>
          /\ arrays = res.arrays
    /\ objs = <<RequestObject([Proto |-> "HTTP/1.1", Method |-> "GET",
                               URL |-> "http://host/x", ContentLength |-> 0,
                               UserAgent |-> "curl"]),
                ResponseObject([StatusCode |-> 200, ContentLength |-> 42]),
                ResponseObject([StatusCode |-> 404, ContentLength |-> 7])>>
    /\ made = <<SharedRequest>>
    /\ sink = <<>>
    /\ calls = [t \in 1..MaxCalls |-> [pc |-> "idle"]]
    /\ levelVar = <<>>
    /\ result = [op |-> "WithAttrs", h |-> 1, attrs |-> <<SharedRequest>>, new |-> 2]

\* Handle up to the first loop of Handler.request: the baggage is added to
\* the record and the object of the first attribute with key request found.
FindRequest(t, r) ==
    /\ calls[t].pc = "idle"
    /\ LET all == record(handlers, arrays, 2, r)
           i == First(all.attrs, RequestKey)
       IN /\ i # 0
          /\ AsHttpRequest(all.attrs[i].Value) # 0
          /\ calls' = [calls EXCEPT ![t] =
                          [pc |-> "found", r |-> r,
                           req |-> AsHttpRequest(all.attrs[i].Value)]]
    /\ result' = [op |-> "request", call |-> t]
    /\ UNCHANGED <<handlers, arrays, objs, made, sink, levelVar>>

\* The second loop of Handler.request, up to request.Status = response.Status.
MergeStatus(t) ==
    /\ calls[t].pc = "found"
    /\ LET c == calls[t]
           all == record(handlers, arrays, 2, c.r)
           j == First(all.attrs, ResponseKey)
           resp == AsHttpRequest(all.attrs[j].Value)
       IN /\ j # 0 /\ resp # 0
          /\ objs' = [objs EXCEPT ![c.req] = [@ EXCEPT !.Status = objs[resp].Status]]
          /\ calls' = [calls EXCEPT ![t] =
                          [pc |-> "status", r |-> c.r, req |-> c.req, resp |-> resp]]
    /\ result' = [op |-> "request", call |-> t]
    /\ UNCHANGED <<handlers, arrays, made, sink, levelVar>>

\* request.ResponseSize = response.ResponseSize
MergeSize(t) ==
    /\ calls[t].pc = "status"
    /\ LET c == calls[t] IN
          /\ objs' = [objs EXCEPT ![c.req] =
                         [@ EXCEPT !.ResponseSize = objs[c.resp].ResponseSize]]
          /\ calls' = [calls EXCEPT ![t] = [c EXCEPT !.pc = "merged"]]
    /\ result' = [op |-> "request", call |-> t]
    /\ UNCHANGED <<handlers, arrays, made, sink, levelVar>>

\* The rest of Handle: the entry is built around the pointer Handler.request
\* returned, encoded (which reads the object) and written.  The other parts
\* of the entry do not depend on the objects.
Emit(t) ==
    /\ calls[t].pc = "merged"
    /\ LET c == calls[t]
           entry == [Handle(handlers, arrays, objs, 2, c.r, NoSpan, TRUE).entry
                        EXCEPT !.HttpRequest = objs[c.req]]
           enc == MarshalJSON(entry)
       IN /\ ~enc.err
          /\ sink' = Append(sink, [indent |-> handlers[2].indent, object |-> enc.json])
          /\ calls' = [calls EXCEPT ![t] =
                          [pc |-> "done", r |-> c.r, resp |-> c.resp, entry |-> entry]]
    /\ result' = [op |-> "Handle", call |-> t]
    /\ UNCHANGED <<handlers, arrays, objs, made, levelVar>>

NextRace ==
    \E t \in 1..MaxCalls :
        \/ \E r \in Records("hi", LevelInfo, {<<a>> : a \in OwnResponses}) :
              FindRequest(t, r)
        \/ MergeStatus(t)
        \/ MergeSize(t)
        \/ Emit(t)

SpecRace == InitRace /\ [][NextRace]_vars

\* C22: the entry a call has emitted has, in its HttpRequest, the status
\* and the response size of the response of that call's own record.
C22_SharedRequestNoInterference ==
    \A t \in DOMAIN calls :
        calls[t].pc = "done"
        => /\ calls[t].entry.HttpRequest.Status = objs[calls[t].resp].Status
           /\ calls[t].entry.HttpRequest.ResponseSize = objs[calls[t].resp].ResponseSize

(***************************************************************************)
(* SpecOperation: operations.  The records handled have up to MaxAttrs     *)
(* attributes, each an operation, an attribute with the key operation that *)
(* holds a string, or a plain attribute.                                   *)
(***************************************************************************)
BadOperation == Attr(OperationKey, StringValue(<<"x">>))

Ended == OperationEnd("id", "producer")

OperationAttrs == {Started, Ended, BadOperation, Plain}

InitOperation == InitWith({DefaultOptions})

NextOperation ==
    \E r \in Records("hi", LevelInfo, SeqsUpTo(OperationAttrs, MaxAttrs)) :
        CallHandle(1, r, NoSpan, TRUE)

SpecOperation == InitOperation /\ [][NextOperation]_vars

\* The places of the attributes with key operation that hold an operation.
Operations(as) ==
    {i \in DOMAIN as : as[i].Key = OperationKey /\ AsOperation(as[i].Value) # Nil}

\* C23: the operation of the entry is that of the first attribute with key
\* operation that holds an operation, and there is none only when no
\* attribute is one.
C23_MalformedOperationIgnored ==
    (result.op = "Handle" /\ result.outcome = "ok")
    => LET ops == Operations(result.r.attrs) IN
       IF ops = {} THEN result.entry.Operation = Nil
       ELSE LET i == CHOOSE k \in ops : \A l \in ops : k <= l IN
            /\ result.entry.Operation # Nil
            /\ result.entry.Operation.Id = result.r.attrs[i].Value.op.Id
            /\ result.entry.Operation.First = result.r.attrs[i].Value.op.First
            /\ result.entry.Operation.Last = result.r.attrs[i].Value.op.Last

(***************************************************************************)
(* LevelVar: a string that is read as a level.  Texts are sequences of     *)
(* characters.  slog.Level.UnmarshalText reads a name (DEBUG, INFO, WARN,  *)
(* ERROR in any case) with an optional signed decimal offset after it;     *)
(* slog.Level.String writes the name of the named level at or below the    *)
(* level (DEBUG below info) and the offset from it with its sign.          *)
(***************************************************************************)
Digits == <<"0", "1", "2", "3", "4", "5", "6", "7", "8", "9">>

LowerCase ==
    <<"a", "b", "c", "d", "e", "f", "g", "h", "i", "j", "k", "l", "m",
      "n", "o", "p", "q", "r", "s", "t", "u", "v", "w", "x", "y", "z">>

UpperCase ==
    <<"A", "B", "C", "D", "E", "F", "G", "H", "I", "J", "K", "L", "M",
      "N", "O", "P", "Q", "R", "S", "T", "U", "V", "W", "X", "Y", "Z">>

IsDigit(c) == \E d \in DOMAIN Digits : Digits[d] = c

DigitValue(c) == (CHOOSE d \in DOMAIN Digits : Digits[d] = c) - 1

\* strings.ToUpper
ToUpper(s) ==
    [i \in DOMAIN s |->
        IF \E k \in DOMAIN LowerCase : LowerCase[k] = s[i]
        THEN UpperCase[CHOOSE k \in DOMAIN LowerCase : LowerCase[k] = s[i]]
        ELSE s[i]]

\* strings.IndexAny(s, "+-"), counting from 1, 0 when there is none.
IndexSign(s) ==
    IF \E i \in DOMAIN s : s[i] \in {"+", "-"}
    THEN CHOOSE i \in DOMAIN s : s[i] \in {"+", "-"} /\ \A j \in 1..(i - 1) : s[j] \notin {"+", "-"}
    ELSE 0

\* The number a sequence of decimal digits denotes.
RECURSIVE DecimalValue(_)
DecimalValue(ds) ==
    IF ds = <<>> THEN 0
    ELSE 10 * DecimalValue(SubSeq(ds, 1, Len(ds) - 1)) + DigitValue(ds[Len(ds)])

\* strconv.Atoi: an optional sign and one or more decimal digits.
Atoi(s) ==
    LET signed == s # <<>> /\ s[1] \in {"+", "-"}
        ds == IF signed THEN Tail(s) ELSE s
    IN IF ds = <<>> \/ \E i \in DOMAIN ds : ~IsDigit(ds[i])
       THEN [err |-> TRUE, n |-> 0]
       ELSE [err |-> FALSE,
             n |-> IF signed /\ s[1] = "-" THEN 0 - DecimalValue(ds) ELSE DecimalValue(ds)]

\* The decimal digits of a natural number.
RECURSIVE Itoa(_)
Itoa(n) ==
    IF n < 10 THEN <<Digits[n + 1]>>
    ELSE Itoa(n \div 10) \o <<Digits[(n % 10) + 1]>>

\* fmt.Sprintf("%+d", n)
FormatSigned(n) == IF n < 0 THEN <<"-">> \o Itoa(0 - n) ELSE <<"+">> \o Itoa(n)

DebugText == <<"D", "E", "B", "U", "G">>
InfoText == <<"I", "N", "F", "O">>
WarnText == <<"W", "A", "R", "N">>
ErrorText == <<"E", "R", "R", "O", "R">>

\* slog.Level.String that writes the name without the offset.
Level_String_NameOnly(l) ==
    IF l < LevelInfo THEN DebugText
    ELSE IF l < LevelWarn THEN InfoText
    ELSE IF l < LevelError THEN WarnText
    ELSE ErrorText

\* slog.Level.String
Level_String(l) ==
    LET str(base, val) == IF val = 0 THEN base ELSE base \o FormatSigned(val) IN
    IF l < LevelInfo THEN str(DebugText, l - LevelDebug)
    ELSE IF l < LevelWarn THEN str(InfoText, l - LevelInfo)
    ELSE IF l < LevelError THEN str(WarnText, l - LevelWarn)
    ELSE str(ErrorText, l - LevelError)

\* slog.Level.UnmarshalText on a zero Level: the error, and the level
\* afterwards, which is still zero when there is an error.
Level_UnmarshalText(s) ==
    LET i == IndexSign(s)
        word == IF i = 0 THEN s ELSE SubSeq(s, 1, i - 1)
        offset == IF i = 0 THEN [err |-> FALSE, n |-> 0]
                  ELSE Atoi(SubSeq(s, i, Len(s)))
        upper == ToUpper(word)
    IN IF offset.err THEN [err |-> TRUE, level |-> 0]
       ELSE IF upper = DebugText THEN [err |-> FALSE, level |-> LevelDebug + offset.n]
       ELSE IF upper = InfoText THEN [err |-> FALSE, level |-> LevelInfo + offset.n]
       ELSE IF upper = WarnText THEN [err |-> FALSE, level |-> LevelWarn + offset.n]
       ELSE IF upper = ErrorText THEN [err |-> FALSE, level |-> LevelError + offset.n]
       ELSE [err |-> TRUE, level |-> 0]

\* LevelVar.Level: the level the text reads as, the error dropped.
LevelVar_Level(v) == Level_UnmarshalText(v).level

\* LevelVar.UnmarshalText: the error, and the text held afterwards.
LevelVar_UnmarshalText(v, data) ==
    LET p == Level_UnmarshalText(data) IN
    IF p.err THEN [err |-> TRUE, v |-> v]
    ELSE [err |-> FALSE, v |-> Level_String(p.level)]

CallSet(text) ==
    /\ levelVar' = text
    /\ result' = [op |-> "Set", text |-> text]
    /\ UNCHANGED <<handlers, arrays, objs, made, sink, calls>>

CallLevel ==
    /\ result' = [op |-> "Level", ret |-> LevelVar_Level(levelVar)]
    /\ UNCHANGED <<handlers, arrays, objs, made, sink, calls, levelVar>>

CallUnmarshalText(data) ==
    /\ LET res == LevelVar_UnmarshalText(levelVar, data) IN
          /\ levelVar' = res.v
          /\ result' = [op |-> "UnmarshalText", data |-> data, err |-> res.err]
    /\ UNCHANGED <<handlers, arrays, objs, made, sink, calls>>

(***************************************************************************)
(* SpecLevelVar: a LevelVar that starts empty is set to a text, read, and  *)
(* given texts to unmarshal: a name, good or not, followed by nothing, by  *)
(* an offset of at most MaxLevel either way, or by something that is not   *)
(* an offset.                                                              *)
(***************************************************************************)
GoodNames ==
    {DebugText, InfoText, WarnText, ErrorText,
     <<"i", "n", "f", "o">>, <<"W", "a", "r", "n">>}

BadNames == {<<>>, <<"x">>, <<"I", "N", "F">>}

GoodOffsets == {<<>>, <<"+", "1">>, <<"-", "1">>, <<"-", "0">>, <<"+", "0", "4">>}

BadOffsets == {<<"+">>, <<"+", "x">>, <<"+", "1", "-", "2">>, <<"-", " ", "1">>}

\* The texts given to UnmarshalText: the text of every level from -MaxLevel
\* to MaxLevel, and every name followed by every offset.
Texts ==
    {Level_String(l) : l \in Levels}
        \cup {n \o x : n \in GoodNames \cup BadNames, x \in GoodOffsets \cup BadOffsets}

SetTexts ==
    {<<>>, <<"x">>, <<"w", "a", "r", "n">>, ErrorText \o <<"+">>,
     DebugText \o <<"-", "1">>}

InitLevelVar == InitWith({DefaultOptions})

NextLevelVar ==
    \/ \E text \in SetTexts : CallSet(text)
    \/ CallLevel
    \/ \E data \in Texts : CallUnmarshalText(data)

SpecLevelVar == InitLevelVar /\ [][NextLevelVar]_vars

\* The name of a named level.
LevelName(l) ==
    CASE l = LevelDebug -> DebugText
      [] l = LevelInfo -> InfoText
      [] l = LevelWarn -> WarnText
      [] l = LevelError -> ErrorText

\* The number a text writes as an offset, if it writes one: nothing is 0,
\* and a sign with decimal digits is the number they denote.
Offsets(x) ==
    IF x = <<>> THEN {0}
    ELSE IF Len(x) > 1 /\ x[1] \in {"+", "-"} /\ \A i \in 2..Len(x) : IsDigit(x[i])
    THEN {IF x[1] = "-" THEN 0 - DecimalValue(Tail(x)) ELSE DecimalValue(Tail(x))}
    ELSE {}

\* The levels a text spells: the name of a named level, in any case of the
\* letters, and an offset after it.
Spelled(t) ==
    LET u == ToUpper(t) IN
    UNION {IF Len(u) >= Len(LevelName(b)) /\ SubSeq(u, 1, Len(LevelName(b))) = LevelName(b)
           THEN {b + k : k \in Offsets(SubSeq(u, Len(LevelName(b)) + 1, Len(u)))}
           ELSE {} : b \in NamedLevels}

\* C24: UnmarshalText of a text that spells no level gives an error and
\* leaves the text held, and so the level, as it was; UnmarshalText of a
\* text that spells a level gives no error and stores a text that reads as
\* exactly that level; Level of a text that spells no level is info.
C24_UnmarshalTextAllOrNothing ==
    [][/\ result'.op = "UnmarshalText" =>
            LET spelled == Spelled(result'.data) IN
            IF spelled = {}
            THEN /\ result'.err
                 /\ levelVar' = levelVar
                 /\ LevelVar_Level(levelVar') = LevelVar_Level(levelVar)
            ELSE /\ ~result'.err
                 /\ Spelled(levelVar') = spelled
                 /\ {LevelVar_Level(levelVar')} = spelled
       /\ result'.op = "Level" =>
            /\ Spelled(levelVar) = {} => result'.ret = LevelInfo
            /\ levelVar' = levelVar]_vars

\* A text in mixed case with an offset was unmarshalled, and the text now
\* held is another, which reads as warn - 1.
C24_Witness ==
    /\ result.op = "UnmarshalText"
    /\ ~result.err
    /\ result.data = <<"W", "a", "r", "n", "-", "1">>
    /\ levelVar = InfoText \o <<"+", "3">>
    /\ LevelVar_Level(levelVar) = LevelWarn - 1

(***************************************************************************)
(* SpecDerive: derivation.  Handlers are derived from the handlers that    *)
(* exist, one attribute at a time.                                         *)
(***************************************************************************)
Extra == Attr("x", StringValue(<<"1">>))
Other == Attr("y", StringValue(<<"2">>))

DeriveAttrs == {<<Extra>>, <<Other>>}

InitDerive == InitWith({DefaultOptions})

NextDerive ==
    \E h \in 1..Len(handlers), as \in DeriveAttrs : CallWithAttrs(h, as)

SpecDerive == InitDerive /\ [][NextDerive]_vars

\* C1: deriving a handler leaves the baggage of every handler that exists
\* as it was, and the baggage of the new handler is that of its parent
\* followed by the attributes given.
C1_SiblingBaggageIndependent ==
    [][result'.op = "WithAttrs" =>
         /\ \A h \in 1..Len(handlers) :
                Baggage(handlers', arrays', h) = Baggage(handlers, arrays, h)
         /\ Baggage(handlers', arrays', result'.new) =
                Baggage(handlers, arrays, result'.h) \o result'.attrs]_vars

====
